---- MODULE Spec2Model ----
(***************************************************************************)
(* State-machine model of src/s3_sync.py (class S3BucketSync and main).    *)
(*                                                                         *)
(* The program is sequential.  One action models one storage-API call of   *)
(* the program together with all the bookkeeping the code does until the   *)
(* next API call (or until the process exits).  The storage service is the *)
(* environment: the outcome of every call is chosen nondeterministically,  *)
(* and a successful copy_object adds the key to the destination bucket     *)
(* (read-after-write consistent listing).                                  *)
(*                                                                         *)
(* events is a history variable: the log of everything the run did, in     *)
(* order.  stage and caught are history variables too: the position of     *)
(* every mapping in the per-mapping state machine, and the mappings whose  *)
(* processing ended in the except-handler of sync_buckets.                 *)
(***************************************************************************)
EXTENDS Naturals, Sequences, FiniteSets

(* ------------------------------ bounds --------------------------------- *)

Min(a, b) == IF a < b THEN a ELSE b

\* longest plan (number of entries under 'buckets' in buckets.yaml)
MaxMappings == 2
\* longest destination_buckets list of one entry
MaxDests == 2
\* number of keys one page of list_objects_v2 holds
PageSize == 1

\* the buckets of the account in replication order, and the keys an object
\* can have; KeyOrder is the order in which list_objects_v2 returns keys
\* (lexicographic)
BucketOrder == <<"A", "B", "C">>
Buckets == {BucketOrder[i] : i \in 1..Len(BucketOrder)}
KeyOrder == <<"x", "y">>
Keys == {KeyOrder[i] : i \in 1..Len(KeyOrder)}

(* ------------------------- inputs of the run --------------------------- *)

\* destination lists of the entry whose source is the i-th bucket: the next
\* 1, 2, ... buckets of the replication order (non-empty, as the
\* configuration format asks)
DestLists(i) ==
  {SubSeq(BucketOrder, i + 1, i + n) : n \in 1..Min(MaxDests, Len(BucketOrder) - i)}

\* one entry of the 'buckets' list, as _process_bucket_config reads it
Mappings ==
  UNION {{[source_bucket |-> BucketOrder[i], destination_buckets |-> dl] :
            dl \in DestLists(i)} : i \in 1..Len(BucketOrder)}

\* the value of config['buckets']: entries in any order, none twice
Plans ==
  {p \in UNION {[1..n -> Mappings] : n \in 0..MaxMappings} :
     \A i, j \in DOMAIN p : p[i] = p[j] => i = j}

\* what _load_config can find at self.config_file
ConfigFiles ==
  {[kind |-> k, buckets |-> <<>>] : k \in {"absent", "yaml_error", "empty", "no_buckets_key"}}
  \cup {[kind |-> "plan", buckets |-> p] : p \in Plans}

\* what the buckets hold before the run
InitialContents ==
  {c \in [Buckets -> SUBSET Keys] : c["A"] = Keys /\ c["B"] \subseteq {"y"} /\ c["C"] = {}}

\* outcomes of the calls.  Session bootstrap: a client, no credentials, or
\* another error.  head_bucket: an answer, a ClientError with code 404, 403
\* or another code, or another exception.  list_objects_v2 and copy_object:
\* an answer, a ClientError, or another exception
BootOutcomes == {"ok", "no_credentials", "error"}
HeadOutcomes == {"ok", "404", "403", "other", "exception"}
CallOutcomes == {"ok", "client_error", "exception"}

VARIABLES
  pc,                  \* position of the process
  s3_client,           \* self.s3_client: TRUE once boto3.client('s3') is set
  bucket_configs,      \* self.bucket_configs
  total_files_copied,  \* self.total_files_copied
  total_files_failed,  \* self.total_files_failed
  idx,                 \* index in bucket_configs of the for-loop of sync_buckets
  d,                   \* index of the destination validation loop
  valid_dest_buckets,  \* local of _process_bucket_config
  objects,             \* local of _list_objects, then of _process_bucket_config
  oi,                  \* index of the outer (objects) copy loop
  di,                  \* index of the inner (destinations) copy loop
  contents,            \* the storage: keys held by each bucket
  initial_contents,    \* history: what the buckets held before the run
  exit_code,           \* exit status of the process (0 unless sys.exit(1) ran)
  exit_cause,          \* "none", "fatal", "interrupt" or "summary"
  events,              \* history: log of the run
  stage,               \* history: stage of every mapping
  caught               \* history: mappings ended by 'except Exception' in sync_buckets

vars == <<pc, s3_client, bucket_configs, total_files_copied, total_files_failed,
          idx, d, valid_dest_buckets, objects, oi, di, contents, initial_contents,
          exit_code, exit_cause, events, stage, caught>>

Event(op, m, bucket, key, result) ==
  [op |-> op, m |-> m, bucket |-> bucket, key |-> key, result |-> result]

Init ==
  /\ pc = "start"
  /\ s3_client = FALSE
  /\ bucket_configs = <<>>
  /\ total_files_copied = 0
  /\ total_files_failed = 0
  /\ idx = 0
  /\ d = 0
  /\ valid_dest_buckets = <<>>
  /\ objects = <<>>
  /\ oi = 0
  /\ di = 0
  /\ contents \in InitialContents
  /\ initial_contents = contents
  /\ exit_code = 0
  /\ exit_cause = "none"
  /\ events = <<>>
  /\ stage = <<>>
  /\ caught = {}

(* ------------------------- pure parts of the code ---------------------- *)

\* variant of ValidateBucketExists that takes access-denied for accessible
ValidateBucketExists_DeniedIsValid(r) ==
  IF r \in {"ok", "403"} THEN "True"
  ELSE IF r \in {"404", "other"} THEN "False"
  ELSE "raise"

\* variant of ValidateBucketExists that logs a ClientError and goes on
ValidateBucketExists_ErrorIgnored(r) ==
  IF r \in {"ok", "404", "403", "other"} THEN "True" ELSE "raise"

\* _validate_bucket_exists: True when head_bucket answers, False on a
\* ClientError of any code; any other exception is not caught there
ValidateBucketExists(r) ==
  IF r = "ok" THEN "True"
  ELSE IF r \in {"404", "403", "other"} THEN "False"
  ELSE "raise"

\* how the log classifies the outcome of a head_bucket call and of a
\* copy_object call
HeadClass(r) == IF r \in {"404", "403", "other"} THEN "client_error" ELSE r
CopyClass(r) == IF r = "ok" THEN "ok" ELSE "failed"

\* variant of CopyObject without the 'except Exception' result: an unexpected
\* exception counts as a copy
CopyObject_ExceptionAsSuccess(r) == r # "client_error"

\* _copy_object: True when copy_object answers; ClientError and every other
\* Exception are caught and give False
CopyObject(r) == r = "ok"

\* variant of ListObjectsAfterPage whose ClientError handler returns the keys
\* fetched so far
ListObjectsAfterPage_KeepsFetched(acc, page, r) ==
  IF r = "ok" THEN [raised |-> FALSE, failed |-> FALSE, objects |-> acc \o page]
  ELSE IF r = "client_error" THEN [raised |-> FALSE, failed |-> TRUE, objects |-> acc]
  ELSE [raised |-> TRUE, failed |-> TRUE, objects |-> <<>>]

\* _list_objects after a page fetch with outcome r, acc being the keys of the
\* pages before it and page the keys of this one: the accumulated list, the
\* empty list on a ClientError; any other exception is not caught there
ListObjectsAfterPage(acc, page, r) ==
  IF r = "ok" THEN [raised |-> FALSE, failed |-> FALSE, objects |-> acc \o page]
  ELSE IF r = "client_error" THEN [raised |-> FALSE, failed |-> TRUE, objects |-> <<>>]
  ELSE [raised |-> TRUE, failed |-> TRUE, objects |-> <<>>]

\* variant of Listing that answers from what the bucket held when the run
\* began
Listing_AsOfStart(b) == SelectSeq(KeyOrder, LAMBDA k : k \in initial_contents[b])

\* the answer of list_objects_v2 on bucket b: its keys in key order
Listing(b) == SelectSeq(KeyOrder, LAMBDA k : k \in contents[b])

\* the page that follows the first n keys of the listing all
PageAfter(all, n) == SubSeq(all, n + 1, Min(n + PageSize, Len(all)))

\* variant of ExceptHandlerTarget: the exception leaves sync_buckets
ExceptHandlerTarget_Propagates == "exited"

\* where sync_buckets goes once 'except Exception' caught an exception of
\* _process_bucket_config: 'continue', the head of the for loop
ExceptHandlerTarget == "loop"

\* variant of SummaryExitCode that fails a run in which nothing was copied
SummaryExitCode_NothingCopiedFails(failed) ==
  IF failed > 0 \/ total_files_copied = 0 THEN 1 ELSE 0

\* the exit status sync_buckets ends with after the summary
SummaryExitCode(failed) == IF failed > 0 THEN 1 ELSE 0

\* variant of NextPair with the loops exchanged: destinations outside
NextPair_DestinationsOutside(o, k, n, m) ==
  IF o < n THEN <<o + 1, k>>
  ELSE IF k < m THEN <<1, k + 1>>
  ELSE <<0, 0>>

\* the pair the nested copy loops visit after pair (o, k) of n objects and m
\* destinations; <<0, 0>> when (o, k) was the last one
NextPair(o, k, n, m) ==
  IF k < m THEN <<o, k + 1>>
  ELSE IF o < n THEN <<o + 1, 1>>
  ELSE <<0, 0>>

(* ------------------------------ actions -------------------------------- *)

Config == bucket_configs[idx]

\* variant of FatalExit that logs the error and goes on
FatalExit_GoesOn ==
  /\ pc' = "loop"
  /\ exit_code' = exit_code
  /\ exit_cause' = exit_cause

\* sys.exit(1) of _initialize_s3_client and _load_config
FatalExit ==
  /\ pc' = "exited"
  /\ exit_code' = 1
  /\ exit_cause' = "fatal"

\* variant of EndMapping whose exception handler processes the entry again
EndMapping_RetriesOnException(st, raised) ==
  /\ stage' = [stage EXCEPT ![idx] = IF raised THEN "SOURCE_VALIDATING" ELSE st]
  /\ caught' = caught
  /\ pc' = IF raised THEN "vsrc" ELSE "loop"

\* _process_bucket_config returns (raised = FALSE) or raises into the handler
\* of sync_buckets (raised = TRUE); st is the stage the mapping ends in
EndMapping(st, raised) ==
  /\ stage' = [stage EXCEPT ![idx] = st]
  /\ caught' = IF raised THEN caught \cup {idx} ELSE caught
  /\ pc' = IF raised THEN ExceptHandlerTarget ELSE "loop"

\* _initialize_s3_client
InitializeS3Client(r) ==
  /\ pc = "start"
  /\ events' = Append(events, Event("bootstrap", 0, "-", "-", r))
  /\ IF r = "ok"
       THEN /\ s3_client' = TRUE
            /\ pc' = "load"
            /\ UNCHANGED <<exit_code, exit_cause>>
       ELSE /\ FatalExit
            /\ UNCHANGED s3_client
  /\ UNCHANGED <<initial_contents, bucket_configs, total_files_copied, total_files_failed, idx, d,
                 valid_dest_buckets, objects, oi, di, contents, stage, caught>>

\* _load_config
LoadConfig(f) ==
  /\ pc = "load"
  /\ events' = Append(events, Event("load_config", 0, "-", "-",
                                    IF f.kind = "plan" THEN "ok" ELSE f.kind))
  /\ IF f.kind = "plan"
       THEN /\ bucket_configs' = f.buckets
            /\ stage' = [i \in 1..Len(f.buckets) |-> "PENDING"]
            /\ pc' = "loop"
            /\ UNCHANGED <<exit_code, exit_cause>>
       ELSE /\ FatalExit
            /\ UNCHANGED <<bucket_configs, stage>>
  /\ UNCHANGED <<initial_contents, s3_client, total_files_copied, total_files_failed, idx, d,
                 valid_dest_buckets, objects, oi, di, contents, caught>>

\* the for loop of sync_buckets takes the next entry and calls
\* _process_bucket_config, or is exhausted
NextMapping ==
  /\ pc = "loop"
  /\ IF idx < Len(bucket_configs)
       THEN /\ idx' = idx + 1
            /\ stage' = [stage EXCEPT ![idx + 1] = "SOURCE_VALIDATING"]
            /\ valid_dest_buckets' = <<>>
            /\ objects' = <<>>
            /\ d' = 0
            /\ oi' = 0
            /\ di' = 0
            /\ pc' = "vsrc"
       ELSE /\ pc' = "summary"
            /\ UNCHANGED <<idx, stage, valid_dest_buckets, objects, d, oi, di>>
  /\ UNCHANGED <<initial_contents, s3_client, bucket_configs, total_files_copied, total_files_failed,
                 contents, exit_code, exit_cause, events, caught>>

\* _process_bucket_config: validation of the source bucket
ValidateSource(r) ==
  /\ pc = "vsrc"
  /\ events' = Append(events, Event("head_source", idx, Config.source_bucket, "-",
                                    HeadClass(r)))
  /\ IF ValidateBucketExists(r) = "True"
       THEN /\ pc' = "vdst"
            /\ d' = 1
            /\ stage' = [stage EXCEPT ![idx] = "DEST_VALIDATING"]
            /\ UNCHANGED caught
       ELSE /\ EndMapping("SKIPPED", ValidateBucketExists(r) = "raise")
            /\ UNCHANGED d
  /\ UNCHANGED <<initial_contents, s3_client, bucket_configs, total_files_copied, total_files_failed,
                 idx, valid_dest_buckets, objects, oi, di, contents, exit_code,
                 exit_cause>>

\* _process_bucket_config: validation of destination d, and after the last
\* one the test of valid_dest_buckets
ValidateDest(r) ==
  /\ pc = "vdst"
  /\ LET dest == Config.destination_buckets[d]
         res == ValidateBucketExists(r)
         valid == IF res = "True" THEN Append(valid_dest_buckets, dest)
                  ELSE valid_dest_buckets
     IN /\ events' = Append(events, Event("head_dest", idx, dest, "-", HeadClass(r)))
        /\ IF res = "raise"
             THEN /\ EndMapping("SKIPPED", TRUE)
                  /\ UNCHANGED <<d, valid_dest_buckets>>
             ELSE /\ valid_dest_buckets' = valid
                  /\ IF d < Len(Config.destination_buckets)
                       THEN /\ d' = d + 1
                            /\ UNCHANGED <<pc, stage, caught>>
                       ELSE /\ UNCHANGED d
                            /\ IF valid = <<>>
                                 THEN EndMapping("SKIPPED", FALSE)
                                 ELSE /\ pc' = "list"
                                      /\ stage' = [stage EXCEPT ![idx] = "LISTING"]
                                      /\ UNCHANGED caught
  /\ UNCHANGED <<initial_contents, s3_client, bucket_configs, total_files_copied, total_files_failed,
                 idx, objects, oi, di, contents, exit_code, exit_cause>>

\* _list_objects: the fetch of one page, and after the last page the test of
\* objects in _process_bucket_config
ListPage(r) ==
  /\ pc = "list"
  /\ LET all == Listing(Config.source_bucket)
         page == PageAfter(all, Len(objects))
         res == ListObjectsAfterPage(objects, page, r)
     IN /\ events' = Append(events, Event("list", idx, Config.source_bucket, "-", r))
        /\ objects' = res.objects
        /\ IF res.raised
             THEN /\ EndMapping("SKIPPED", TRUE)
                  /\ UNCHANGED <<oi, di>>
             ELSE IF (~res.failed) /\ Len(res.objects) < Len(all)
               THEN UNCHANGED <<pc, stage, caught, oi, di>>
             ELSE IF res.objects = <<>>
               THEN /\ EndMapping("SKIPPED", FALSE)
                    /\ UNCHANGED <<oi, di>>
             ELSE /\ pc' = "copy"
                  /\ stage' = [stage EXCEPT ![idx] = "COPYING"]
                  /\ oi' = 1
                  /\ di' = 1
                  /\ UNCHANGED caught
  /\ UNCHANGED <<initial_contents, s3_client, bucket_configs, total_files_copied, total_files_failed,
                 idx, d, valid_dest_buckets, contents, exit_code, exit_cause>>

\* _copy_objects_to_destinations: one pass of the inner loop
CopyPair(r) ==
  /\ pc = "copy"
  /\ Len(objects) * Len(valid_dest_buckets) # 0
  /\ LET key == objects[oi]
         dest == valid_dest_buckets[di]
         nxt == NextPair(oi, di, Len(objects), Len(valid_dest_buckets))
     IN /\ events' = Append(events, Event("copy", idx, dest, key, CopyClass(r)))
        /\ contents' = IF r = "ok" THEN [contents EXCEPT ![dest] = @ \cup {key}]
                       ELSE contents
        /\ IF CopyObject(r)
             THEN /\ total_files_copied' = total_files_copied + 1
                  /\ UNCHANGED total_files_failed
             ELSE /\ total_files_failed' = total_files_failed + 1
                  /\ UNCHANGED total_files_copied
        /\ IF nxt = <<0, 0>>
             THEN /\ EndMapping("DONE", FALSE)
                  /\ UNCHANGED <<oi, di>>
             ELSE /\ oi' = nxt[1]
                  /\ di' = nxt[2]
                  /\ UNCHANGED <<pc, stage, caught>>
  /\ UNCHANGED <<initial_contents, s3_client, bucket_configs, idx, d, valid_dest_buckets, objects,
                 exit_code, exit_cause>>

\* sync_buckets: the summary and the exit status
Summary ==
  /\ pc = "summary"
  /\ events' = Append(events, Event("summary", 0, "-", "-", "ok"))
  /\ exit_code' = SummaryExitCode(total_files_failed)
  /\ exit_cause' = "summary"
  /\ pc' = "exited"
  /\ UNCHANGED <<initial_contents, s3_client, bucket_configs, total_files_copied, total_files_failed,
                 idx, d, valid_dest_buckets, objects, oi, di, contents, stage, caught>>

\* main: KeyboardInterrupt, at any point of the run
Interrupt ==
  /\ pc # "exited"
  /\ pc' = "exited"
  /\ exit_code' = 1
  /\ exit_cause' = "interrupt"
  /\ UNCHANGED <<initial_contents, s3_client, bucket_configs, total_files_copied, total_files_failed,
                 idx, d, valid_dest_buckets, objects, oi, di, contents, events,
                 stage, caught>>

\* the steps of the program itself
Step ==
  \/ \E r \in BootOutcomes : InitializeS3Client(r)
  \/ \E f \in ConfigFiles : LoadConfig(f)
  \/ NextMapping
  \/ \E r \in HeadOutcomes : ValidateSource(r)
  \/ \E r \in HeadOutcomes : ValidateDest(r)
  \/ \E r \in CallOutcomes : ListPage(r)
  \/ \E r \in CallOutcomes : CopyPair(r)
  \/ Summary

Next == Step \/ Interrupt

Spec == Init /\ [][Next]_vars

\* the process is scheduled until it exits: every call returns or raises
FairSpec == Spec /\ WF_vars(Step)

(* ------------------------ reading the history -------------------------- *)

\* the events of mapping i with operation op, in order
Ops(i, op) == SelectSeq(events, LAMBDA e : e.m = i /\ e.op = op)

\* the copy attempts of mapping i, in order, as <<key, destination>> pairs
CopyPairs(i) ==
  LET c == Ops(i, "copy") IN [k \in 1..Len(c) |-> <<c[k].key, c[k].bucket>>]

\* the copy attempts of the whole run, and those that failed
AllCopies == SelectSeq(events, LAMBDA e : e.op = "copy")
FailedCopies == SelectSeq(events, LAMBDA e : e.op = "copy" /\ e.result # "ok")

\* the configured destinations of mapping i whose validation passed, in
\* configuration order
PassedDests(i) ==
  LET h == Ops(i, "head_dest")
  IN SelectSeq(bucket_configs[i].destination_buckets,
               LAMBDA b : \E k \in 1..Len(h) : h[k].bucket = b /\ h[k].result = "ok")

\* the pairs of objs and dests, objects outside and destinations inside
NestedPairs(objs, dests) ==
  [k \in 1..(Len(objs) * Len(dests)) |->
     <<objs[((k - 1) \div Len(dests)) + 1], dests[((k - 1) % Len(dests)) + 1]>>]

\* the mappings the for loop has reached, and those whose processing ended
Started == 1..idx
Finished == {i \in Started : stage[i] \in {"SKIPPED", "DONE"}}

\* the validation of the source of mapping i failed
SourceInvalid(i) ==
  LET h == Ops(i, "head_source") IN Len(h) = 1 /\ h[1].result # "ok"

\* every configured destination of mapping i was validated and none passed
NoDestPassed(i) ==
  LET h == Ops(i, "head_dest")
  IN /\ Len(h) = Len(bucket_configs[i].destination_buckets)
     /\ \A k \in 1..Len(h) : h[k].result = "client_error"

\* the events of mapping i
EventsOf(i) == SelectSeq(events, LAMBDA e : e.m = i)

\* a page fetch of the listing of mapping i ended with result r
ListResult(i, r) == LET l == Ops(i, "list") IN \E k \in 1..Len(l) : l[k].result = r

\* a run that reached its summary went through the whole plan
PlanWalked == \A i \in 1..Len(bucket_configs) : Ops(i, "head_source") # <<>>

\* the events of the mappings are in plan order (the events of startup and
\* of the summary belong to no mapping)
InPlanOrder ==
  \A k \in 1..Len(events) :
    (k > 1 /\ events[k - 1].m > 0 /\ events[k].m > 0) => events[k - 1].m <= events[k].m

(* ------------------------------- claims -------------------------------- *)

\* C1: when sync_buckets reaches its summary, total_files_failed is the
\* number of copy attempts that failed (ClientError or other exception),
\* total_files_copied is the number of attempts minus the failures, and once
\* the summary is out the exit code is 0 if every attempt succeeded and 1 if
\* at least one failed.
C1_CountersAndExitCode ==
  /\ (pc = "summary" \/ exit_cause = "summary") =>
       /\ total_files_failed = Len(FailedCopies)
       /\ total_files_copied + Len(FailedCopies) = Len(AllCopies)
  /\ exit_cause = "summary" =>
       exit_code = IF FailedCopies = <<>> THEN 0 ELSE 1

\* a run that reached its summary after attempts that succeeded and attempts
\* that failed
C1_Witness ==
  /\ exit_cause = "summary"
  /\ Len(FailedCopies) >= 2
  /\ Len(AllCopies) > Len(FailedCopies)
  /\ exit_code = 1

\* C2: _copy_objects_to_destinations, called with objects o1..on and valid
\* destinations d1..dm, attempts the pairs in the nested order (o1,d1), ...,
\* (o1,dm), (o2,d1), ..., (on,dm): while it runs the attempts made are a
\* prefix of that list, and when it returns they are the whole list, n*m
\* attempts, each pair once, whatever attempts failed.
C2_NestedOrder ==
  (idx >= 1 /\ stage[idx] \in {"COPYING", "DONE"}) =>
     LET all == NestedPairs(objects, valid_dest_buckets)
         made == CopyPairs(idx)
     IN /\ Len(made) <= Len(all)
        /\ made = SubSeq(all, 1, Len(made))
        /\ stage[idx] = "DONE" => /\ made = all
                                  /\ Len(made) = Len(objects) * Len(valid_dest_buckets)

\* two objects and two destinations: four attempts made, the second failed
C2_Witness ==
  /\ idx >= 1
  /\ stage[idx] = "DONE"
  /\ Len(objects) = 2
  /\ Len(valid_dest_buckets) = 2
  /\ Len(Ops(idx, "copy")) = 4
  /\ Ops(idx, "copy")[2].result # "ok"
  /\ Ops(idx, "copy")[3].result = "ok"

\* C3: the copy attempts of a mapping whose processing ended are the listed
\* objects paired with the configured destinations that passed validation, in
\* configuration order (every listed object against each of them, and no
\* other destination); a mapping none of whose destinations passed has no
\* listing call and no copy attempt, and the counters count copy attempts
\* only, so it adds nothing to them.
C3_ValidatedDestinationsOnly ==
  /\ \A i \in Finished :
       /\ LET pairs == CopyPairs(i)
              passed == PassedDests(i)
          IN \A k \in 1..Len(pairs) : \E n \in 1..Len(passed) : pairs[k][2] = passed[n]
       /\ NoDestPassed(i) =>
            /\ Ops(i, "list") = <<>>
            /\ Ops(i, "copy") = <<>>
            /\ stage[i] = "SKIPPED"
  /\ (idx >= 1 /\ idx \in Finished) =>
       /\ CopyPairs(idx) = NestedPairs(objects, PassedDests(idx))
       /\ valid_dest_buckets = PassedDests(idx)
  /\ total_files_copied + total_files_failed = Len(AllCopies)

\* a mapping with destinations [B, C]: B failed validation, C passed, and the
\* two objects of the source were attempted against C
C3_Witness ==
  /\ idx >= 1
  /\ stage[idx] = "DONE"
  /\ Len(bucket_configs[idx].destination_buckets) = 2
  /\ PassedDests(idx) = <<"C">>
  /\ Len(Ops(idx, "copy")) = 2

\* a mapping skipped because none of its two destinations passed
C3_WitnessSkipped ==
  /\ idx >= 1
  /\ idx \in Finished
  /\ Len(bucket_configs[idx].destination_buckets) = 2
  /\ NoDestPassed(idx)

\* C4: a mapping whose source failed validation has no other call than that
\* validation (no destination validated, no listing, no copy attempt), is
\* skipped, leaves the counters as they are, and the for loop goes on: the
\* process is at the head of the loop right after it, and a run that reaches
\* its summary has started the mapping that follows it in the plan.
C4_InvalidSourceSkipped ==
  /\ \A i \in Started :
       SourceInvalid(i) =>
         /\ SelectSeq(events, LAMBDA e : e.m = i) = Ops(i, "head_source")
         /\ stage[i] = "SKIPPED"
         /\ i = idx => pc \in {"loop", "summary", "exited"}
         /\ (i = idx /\ pc = "exited") => exit_cause \in {"interrupt", "summary"}
         /\ (exit_cause = "summary" /\ i < Len(bucket_configs)) =>
               Ops(i + 1, "head_source") # <<>>
  /\ total_files_copied + total_files_failed = Len(AllCopies)
  /\ InPlanOrder

\* a two-mapping run that reached its summary: the source of the first
\* mapping failed validation and the second mapping copied
C4_Witness ==
  /\ exit_cause = "summary"
  /\ Len(bucket_configs) = 2
  /\ SourceInvalid(1)
  /\ Ops(2, "copy") # <<>>

(* -------------------------- claims, continued -------------------------- *)

\* the listing of mapping i failed: a page fetch ended with a ClientError or
\* with another exception
ListingFailed(i) == ListResult(i, "client_error") \/ ListResult(i, "exception")

Raised(i) ==
  LET ev == EventsOf(i)
  IN \E k \in 1..Len(ev) : ev[k].op # "copy" /\ ev[k].result = "exception"

\* C6: an exception raised while a mapping is processed (by the validation of
\* the source or of a destination, or by the listing; the copy loop keeps its
\* own) is caught by sync_buckets, which goes on with the next mapping; a
\* run that is not interrupted reaches its summary, and by then every mapping
\* of the plan was started, in plan order.
C6_ExceptionsCaughtRunCompletes ==
  /\ [](\A i \in Started :
          /\ Raised(i) <=> i \in caught
          /\ Raised(i) =>
               /\ stage[i] = "SKIPPED"
               /\ i = idx => /\ pc \in {"loop", "summary", "exited"}
                             /\ pc = "exited" => exit_cause \in {"interrupt", "summary"})
  /\ [](exit_cause = "summary" => (PlanWalked /\ InPlanOrder))
  /\ [](pc \notin {"start", "load", "exited"} => <>(exit_cause \in {"summary", "interrupt"}))

\* the first mapping raised during a destination validation, the second
\* during its listing, and the run reached its summary
C6_Witness ==
  /\ exit_cause = "summary"
  /\ Len(bucket_configs) = 2
  /\ caught = {1, 2}
  /\ Ops(1, "head_dest") # <<>>
  /\ Ops(2, "list") # <<>>

\* the call that failed at startup, if one did
StartupFailed ==
  \E k \in 1..Len(events) :
    events[k].op \in {"bootstrap", "load_config"} /\ events[k].result # "ok"

\* C7: if session bootstrap fails (no credentials, or another error) or the
\* configuration cannot be loaded (file absent, malformed, empty, or without
\* 'buckets'), the process exits at once with status 1: the failed step is
\* the last thing the run did, no validation, listing or copy call was
\* issued, no mapping was started and no summary emitted; and the
\* configuration is loaded only after a bootstrap that succeeded.
C7_FatalStartup ==
  /\ StartupFailed <=> exit_cause = "fatal"
  /\ StartupFailed =>
       /\ pc = "exited"
       /\ exit_code = 1
       /\ events[Len(events)].op \in {"bootstrap", "load_config"}
       /\ events[Len(events)].result # "ok"
       /\ \A k \in 1..Len(events) : events[k].op \in {"bootstrap", "load_config"}
       /\ idx = 0
       /\ bucket_configs = <<>>
  /\ \A k \in 1..Len(events) :
       /\ events[k].op = "bootstrap" => k = 1
       /\ events[k].op = "load_config" =>
            k = 2 /\ events[1].op = "bootstrap" /\ events[1].result = "ok"
       /\ events[k].op \notin {"bootstrap", "load_config"} =>
            k > 2 /\ events[2].op = "load_config" /\ events[2].result = "ok"

\* the bootstrap succeeded and the configuration file has no 'buckets' key
C7_Witness ==
  /\ exit_cause = "fatal"
  /\ Len(events) = 2
  /\ events[2].result = "no_buckets_key"

\* bootstrap found no credentials
C7_WitnessNoCredentials ==
  /\ exit_cause = "fatal"
  /\ Len(events) = 1
  /\ events[1].result = "no_credentials"

\* the stages in the order a mapping goes through them
StageRank(st) ==
  CASE st = "PENDING" -> 0
    [] st = "SOURCE_VALIDATING" -> 1
    [] st = "DEST_VALIDATING" -> 2
    [] st = "LISTING" -> 3
    [] st = "COPYING" -> 4
    [] st \in {"DONE", "SKIPPED"} -> 5

\* the moves of the per-mapping state machine
StageMoves ==
  {<<"PENDING", "SOURCE_VALIDATING">>,
   <<"SOURCE_VALIDATING", "SKIPPED">>, <<"SOURCE_VALIDATING", "DEST_VALIDATING">>,
   <<"DEST_VALIDATING", "SKIPPED">>, <<"DEST_VALIDATING", "LISTING">>,
   <<"LISTING", "SKIPPED">>, <<"LISTING", "COPYING">>,
   <<"COPYING", "DONE">>}

\* the operations of a mapping in the order of its stages
OpRank(op) ==
  CASE op = "head_source" -> 1
    [] op = "head_dest" -> 2
    [] op = "list" -> 3
    [] op = "copy" -> 4

\* a validation or listing stage of mapping i failed
StageFailed(i) ==
  \/ SourceInvalid(i)
  \/ NoDestPassed(i)
  \/ ListResult(i, "client_error")
  \/ Raised(i)

\* C8: a mapping moves only forward through PENDING, SOURCE_VALIDATING,
\* DEST_VALIDATING, LISTING, COPYING, DONE, or to SKIPPED from a validation or
\* listing stage, and never leaves DONE or SKIPPED; the calls of a mapping
\* come in the order of the stages, and a copy is attempted only after the
\* source passed, every configured destination was validated and every page
\* of the listing was fetched; a validation or listing stage that fails
\* leaves the mapping SKIPPED, and the move to SKIPPED takes the process to
\* the head of the for loop with the exit status untouched.
C8_StagesForwardOnly ==
  /\ [][\A i \in DOMAIN stage :
          i \in DOMAIN stage' =>
            /\ stage'[i] # stage[i] => <<stage[i], stage'[i]>> \in StageMoves
            /\ StageRank(stage[i]) <= StageRank(stage'[i])
            /\ (stage'[i] # stage[i] /\ stage'[i] = "SKIPPED") =>
                 (pc' = "loop" /\ exit_code' = exit_code /\ exit_cause' = exit_cause)]_vars
  /\ [](\A i \in Started :
          /\ LET ev == EventsOf(i)
             IN \A k \in 1..Len(ev) : k > 1 => OpRank(ev[k - 1].op) <= OpRank(ev[k].op)
          /\ Ops(i, "copy") # <<>> =>
               LET hs == Ops(i, "head_source")
                   hd == Ops(i, "head_dest")
                   l == Ops(i, "list")
               IN
               /\ Len(hs) = 1
               /\ hs[1].result = "ok"
               /\ Len(hd) = Len(bucket_configs[i].destination_buckets)
               /\ \A k \in 1..Len(l) : l[k].result = "ok"
               /\ i = idx => Len(l) * PageSize >= Len(objects)
               /\ stage[i] \in {"COPYING", "DONE"}
          /\ StageFailed(i) => stage[i] = "SKIPPED")
  /\ [](exit_cause = "fatal" => stage = <<>>)

\* the first mapping was skipped at its listing, the second is copying
C8_Witness ==
  /\ Len(bucket_configs) = 2
  /\ ListResult(1, "client_error")
  /\ stage = <<"SKIPPED", "COPYING">>

\* C9: a run that ends with its summary (no fatal startup error, no
\* interrupt) exits with status 1 if and only if total_files_failed > 0, and
\* with status 0 otherwise: mappings that were skipped or whose exception was
\* caught do not change the status.
C9_ExitCodeIffFailures ==
  exit_cause = "summary" =>
    /\ exit_code \in {0, 1}
    /\ exit_code = 1 <=> total_files_failed > 0

\* status 0 from a run that copied nothing: of its two mappings one was
\* skipped and the other ended in the exception handler
C9_Witness ==
  /\ exit_cause = "summary"
  /\ exit_code = 0
  /\ Len(bucket_configs) = 2
  /\ stage = <<"SKIPPED", "SKIPPED">>
  /\ Cardinality(caught) = 1
  /\ total_files_copied = 0

\* the source of mapping i
SourceOf(i) == bucket_configs[i].source_bucket

\* key was copied into bucket b by a mapping before mapping i
CopiedInBefore(i, b, key) ==
  \E n \in 1..Len(events) :
    /\ events[n].op = "copy"
    /\ events[n].result = "ok"
    /\ events[n].m < i
    /\ events[n].bucket = b
    /\ events[n].key = key

\* every page of the listing of mapping i was fetched and none failed
ListingAnswered(i) ==
  LET l == Ops(i, "list")
  IN /\ i \in Finished
     /\ l # <<>>
     /\ \A k \in 1..Len(l) : l[k].result = "ok"

\* C10: the source of a mapping is listed when the mapping is processed,
\* after all the copy attempts of the mappings before it.  So when the
\* buckets of a mapping are valid and its listing is answered, every key an
\* earlier mapping copied into its source is attempted against each of its
\* valid destinations in the same run (plan [A -> B, B -> C]); and a mapping
\* attempts no key but those its source held before the run or received from
\* an earlier mapping, so a key that reaches its source only through a later
\* mapping is not attempted (plan [B -> C, A -> B]).
C10_ListingSeesEarlierCopies ==
  /\ InPlanOrder
  /\ \A i \in Finished :
       ListingAnswered(i) =>
         LET pairs == CopyPairs(i)
             passed == PassedDests(i)
         IN \A key \in Keys :
              CopiedInBefore(i, SourceOf(i), key) =>
                \A n \in 1..Len(passed) :
                  \E k \in 1..Len(pairs) : pairs[k] = <<key, passed[n]>>
  /\ \A i \in Started :
       LET pairs == CopyPairs(i)
       IN \A k \in 1..Len(pairs) :
            \/ pairs[k][1] \in initial_contents[SourceOf(i)]
            \/ CopiedInBefore(i, SourceOf(i), pairs[k][1])

\* plan [A -> B, B -> C]: x, which B did not hold, was copied into B by the
\* first mapping and attempted against C by the second
C10_Witness ==
  /\ Len(bucket_configs) = 2
  /\ SourceOf(1) = "A" /\ SourceOf(2) = "B"
  /\ "x" \notin initial_contents["B"]
  /\ CopiedInBefore(2, "B", "x")
  /\ LET pairs == CopyPairs(2) IN \E k \in 1..Len(pairs) : pairs[k] = <<"x", "C">>

\* plan [B -> C, A -> B]: x was copied into B by the second mapping, and the
\* first mapping attempted y alone against C
C10_WitnessReversed ==
  /\ exit_cause = "summary"
  /\ Len(bucket_configs) = 2
  /\ SourceOf(1) = "B" /\ SourceOf(2) = "A"
  /\ \E n \in 1..Len(events) :
       events[n].op = "copy" /\ events[n].m = 2 /\ events[n].bucket = "B"
       /\ events[n].key = "x" /\ events[n].result = "ok"
  /\ CopyPairs(1) = <<<<"y", "C">>>>

====
